---- MODULE Spec2Model ----
(***************************************************************************)
(* A model of sanctuary-argv (src/index.js): parseArgs scans an argument   *)
(* list from left to right against a specification (name -> handler) and  *)
(* returns Left (message) or Right (Pair (conf) (positionals)).            *)
(*                                                                         *)
(* A string is a sequence of one-character strings, so that startsWith,    *)
(* replace and match act on characters as they do in the source.  A        *)
(* message is a sequence of string pieces: concatenation is \o.            *)
(* Array indices are 0-based as in the source; At reads args[idx].         *)
(***************************************************************************)
EXTENDS Naturals, Sequences, FiniteSets, TLC

\* ------------------------------------------------------------ bounds
\* The longest argument list explored.
MaxArgs == 3

\* The longest argument the names of which are compared character by character.
MaxNameLen == 4

\* ------------------------------------------------------------ values
Left(x) == [isLeft |-> TRUE, value |-> x]

Right(x) == [isLeft |-> FALSE, value |-> x]

Pair(a, b) == [fst |-> a, snd |-> b]

Nothing == <<>>

Just(x) == <<x>>

Flag(setter) == Left(setter)

Option(validator) == Right(validator)

\* ------------------------------------------------------------ strings
hyphen == "-"

tDash == <<"-">>
tSep == <<"-", "-">>
tC == <<"-", "c">>
tE == <<"-", "e">>
tW == <<"-", "w">>
tD == <<"-", "d">>
tCE == <<"-", "c", "e">>
tEC == <<"-", "e", "c">>
tCD == <<"-", "c", "d">>
tDC == <<"-", "d", "c">>
tCWE == <<"-", "c", "w", "e">>
tCHE == <<"-", "c", "-", "e">>
tColor == <<"-", "-", "c", "o", "l", "o", "r">>
tColour == <<"-", "-", "c", "o", "l", "o", "u", "r">>
tNoColor == <<"-", "-", "n", "o", "-", "c", "o", "l", "o", "r">>
tNoColour == <<"-", "-", "n", "o", "-", "c", "o", "l", "o", "u", "r">>
tEmail == <<"-", "-", "e", "m", "a", "i", "l">>
tWord == <<"-", "-", "w", "o", "r", "d">>
tFoo == <<"-", "-", "f", "o", "o">>
tBar == <<"b", "a", "r">>
tMail == <<"a", "@", "b">>

\* The argument tokens the model draws argument lists from.
Tokens ==
  { tDash, tSep, tC, tE, tW, tD, tCE, tEC, tCD, tDC, tCWE, tCHE,
    tNoColor, tFoo, tBar, tMail }

\* args[i] of a 0-based array.
At(xs, i) == xs[i + 1]

\* xs.slice (i)
slice(xs, i) == SubSeq(xs, i + 1, Len(xs))

\* s.startsWith (p)
startsWith(s, p) == Len(s) >= Len(p) /\ SubSeq(s, 1, Len(p)) = p

\* s.includes (c), c one character
includes(s, c) == \E i \in 1..Len(s) : s[i] = c

\* show (s) of a string: the string in double quotes
show(s) == <<"\"">> \o s \o <<"\"">>

\* arg.replace (/(?:)/g, '-'): the empty pattern matches before every
\* character and at the end, and each match is replaced by a hyphen.
replaceEmpty(arg) ==
  [i \in 1..(2 * Len(arg) + 1) |-> IF i % 2 = 1 THEN hyphen ELSE arg[i \div 2]]

\* s.match (/-[^-]/g) from position p on: the successive non-overlapping
\* matches of a hyphen followed by one character that is not a hyphen.
RECURSIVE matchFrom(_, _)
matchFrom(s, p) ==
  IF p + 1 > Len(s) THEN <<>>
  ELSE IF s[p] = hyphen /\ s[p + 1] # hyphen
       THEN <<(<<s[p], s[p + 1]>>)>> \o matchFrom(s, p + 2)
       ELSE matchFrom(s, p + 1)

\* String.prototype.match with a global pattern yields null when nothing
\* matches.
null == [null |-> TRUE]

match(s) == IF matchFrom(s, 1) = <<>> THEN null ELSE matchFrom(s, 1)

\* names with the pattern's g flag dropped: match yields the first match only.
names_first(arg) ==
  IF startsWith(arg, tSep) THEN <<arg>>
  ELSE <<Head(matchFrom(replaceEmpty(arg), 1))>>

\* names making a name of every character after the first, hyphens included.
names_split(arg) ==
  IF startsWith(arg, tSep) THEN <<arg>>
  ELSE [k \in 1..(Len(arg) - 1) |-> <<hyphen, arg[k + 1]>>]

names(arg) == IF startsWith(arg, tSep) THEN <<arg>> ELSE match(replaceEmpty(arg))

\* ------------------------------------------------------------ handlers
\* The setters and validators of the documented specification.  A setter
\* is named by a record and applied by apply; a validator is named by a
\* string and applied by validate.
defaultOptions == [color |-> FALSE, email |-> Nothing, words |-> <<>>]

\* A configuration other than the default one.
configured == [color |-> TRUE, email |-> Nothing, words |-> <<tBar>>]

apply(setter, c) ==
  CASE setter.fn = "color" -> [c EXCEPT !.color = TRUE]
    [] setter.fn = "noColor" -> [c EXCEPT !.color = FALSE]
    [] setter.fn = "email" -> [c EXCEPT !.email = Just(setter.arg)]
    [] setter.fn = "words" -> [c EXCEPT !.words = Append(@, setter.arg)]

validate(validator, s) ==
  CASE validator = "email" ->
         IF includes(s, "@")
         THEN Right([fn |-> "email", arg |-> s])
         ELSE Left(show(s) \o <<" is not a valid email address">>)
    [] validator = "words" -> Right([fn |-> "words", arg |-> s])

colorFlag == Flag([fn |-> "color"])

noColorFlag == Flag([fn |-> "noColor"])

emailOption == Option("email")

wordOption == Option("words")

\* The specification of the documentation and of the tests.
updaters ==
  (tC :> colorFlag) @@ (tColor :> colorFlag) @@ (tColour :> colorFlag)
  @@ (tNoColor :> noColorFlag) @@ (tNoColour :> noColorFlag)
  @@ (tE :> emailOption) @@ (tEmail :> emailOption)
  @@ (tW :> wordOption) @@ (tWord :> wordOption)

\* A second specification: other handlers under the same short names, and
\* the keys "-" and "--", which a caller is free to put in the mapping.
others ==
  (tDash :> colorFlag) @@ (tSep :> wordOption) @@ (tD :> colorFlag)
  @@ (tC :> wordOption) @@ (tE :> noColorFlag) @@ (tFoo :> emailOption)

\* The specification and initial configuration value of a call.
Calls == {<<updaters, defaultOptions>>, <<others, configured>>}

\* Object.prototype.propertyIsEnumerable.call (spec, name)
propertyIsEnumerable(s, name) == name \in DOMAIN s

\* The argument lists of at most n tokens.
ArgLists(n) == UNION {[1..k -> Tokens] : k \in 0..n}

\* ------------------------------------------------------------ state
VARIABLES
  spec,      \* the specification parseArgs was given
  init,      \* the initial configuration value
  args,      \* the argument list
  conf,      \* the loop's current configuration value
  idx,       \* the loop's index into args
  pending,   \* the names of args[idx] the inner loop has yet to take
  pc,        \* "head": at the loop's test; "names": in the inner loop; "done"
  returned,  \* the values returned so far: none, or one
  trace      \* history: what the scan read, looked up, validated and applied

vars == <<spec, init, args, conf, idx, pending, pc, returned, trace>>

inputs == <<spec, init, args>>

\* An event of the history: op is "end", "dash", "separator", "positional"
\* or "names" (the loop's test classified args[idx]), "lookup" (name, taken
\* from args[idx], was looked up in spec), "validate" (a validator was given
\* arg = args[idx]) or "apply" (the setter arg was applied for name).
Ev(op, i, name, arg) == [op |-> op, idx |-> i, name |-> name, arg |-> arg]

\* The events of the run with operation op.
Events(op) == {k \in 1..Len(trace) : trace[k].op = op}

\* The index of the argument whose names the inner loop is taking.
tokenIndex ==
  LET ks == Events("names") IN trace[CHOOSE k \in ks : \A m \in ks : m <= k].idx

Init ==
  /\ \E call \in Calls : spec = call[1] /\ init = call[2]
  /\ args \in ArgLists(MaxArgs)
  /\ conf = init
  /\ idx = 0
  /\ pending = <<>>
  /\ pc = "head"
  /\ returned = <<>>
  /\ trace = <<>>

\* return x
return(x) ==
  /\ returned' = Append(returned, x)
  /\ pc' = "done"
  /\ pending' = <<>>

\* AtEnd returning the initial configuration value.
AtEnd_init ==
  /\ pc = "head"
  /\ idx = Len(args)
  /\ return(Right(Pair(init, <<>>)))
  /\ trace' = Append(trace, Ev("end", idx, <<>>, <<>>))
  /\ UNCHANGED <<inputs, conf, idx>>

\* AtEnd returning the whole argument list as positionals.
AtEnd_all ==
  /\ pc = "head"
  /\ idx = Len(args)
  /\ return(Right(Pair(conf, args)))
  /\ trace' = Append(trace, Ev("end", idx, <<>>, <<>>))
  /\ UNCHANGED <<inputs, conf, idx>>

\* if (idx === args.length) return Right (Pair (conf) ([]));
AtEnd ==
  /\ pc = "head"
  /\ idx = Len(args)
  /\ return(Right(Pair(conf, <<>>)))
  /\ trace' = Append(trace, Ev("end", idx, <<>>, <<>>))
  /\ UNCHANGED <<inputs, conf, idx>>

\* LoneDash that looks "-" up first and fails only when it is no key.
LoneDash_lookup ==
  /\ pc = "head"
  /\ idx # Len(args)
  /\ At(args, idx) = tDash
  /\ IF propertyIsEnumerable(spec, tDash)
     THEN /\ pending' = <<tDash>>
          /\ pc' = "names"
          /\ trace' = Append(trace, Ev("names", idx, <<>>, <<>>))
          /\ UNCHANGED returned
     ELSE /\ return(Left(<<"- is not a valid flag or option name">>))
          /\ trace' = Append(trace, Ev("dash", idx, <<>>, <<>>))
  /\ UNCHANGED <<inputs, conf, idx>>

\* else if (args[idx] === '-') return Left ('- is not a valid ...');
LoneDash ==
  /\ pc = "head"
  /\ idx # Len(args)
  /\ At(args, idx) = tDash
  /\ return(Left(<<"- is not a valid flag or option name">>))
  /\ trace' = Append(trace, Ev("dash", idx, <<>>, <<>>))
  /\ UNCHANGED <<inputs, conf, idx>>

\* Separator with args.slice (idx): the separator stays in the positionals.
Separator_inclusive ==
  /\ pc = "head"
  /\ idx # Len(args)
  /\ At(args, idx) # tDash
  /\ At(args, idx) = tSep
  /\ return(Right(Pair(conf, slice(args, idx))))
  /\ trace' = Append(trace, Ev("separator", idx, <<>>, <<>>))
  /\ UNCHANGED <<inputs, conf, idx>>

\* Separator that cuts the positionals off the argument list in place.
Separator_splice ==
  /\ pc = "head"
  /\ idx # Len(args)
  /\ At(args, idx) # tDash
  /\ At(args, idx) = tSep
  /\ return(Right(Pair(conf, slice(args, idx + 1))))
  /\ args' = SubSeq(args, 1, idx + 1)
  /\ trace' = Append(trace, Ev("separator", idx, <<>>, <<>>))
  /\ UNCHANGED <<spec, init, conf, idx>>

\* else if (args[idx] === '--') return Right (Pair (conf) (args.slice (idx + 1)));
Separator ==
  /\ pc = "head"
  /\ idx # Len(args)
  /\ At(args, idx) # tDash
  /\ At(args, idx) = tSep
  /\ return(Right(Pair(conf, slice(args, idx + 1))))
  /\ trace' = Append(trace, Ev("separator", idx, <<>>, <<>>))
  /\ UNCHANGED <<inputs, conf, idx>>

\* Positional with args.slice (idx + 1): the first positional is dropped.
Positional_dropped ==
  /\ pc = "head"
  /\ idx # Len(args)
  /\ At(args, idx) # tDash
  /\ At(args, idx) # tSep
  /\ ~startsWith(At(args, idx), <<hyphen>>)
  /\ return(Right(Pair(conf, slice(args, idx + 1))))
  /\ trace' = Append(trace, Ev("positional", idx, <<>>, <<>>))
  /\ UNCHANGED <<inputs, conf, idx>>

\* Positional taking every argument that is neither the separator, nor a
\* hyphen followed by non-hyphen characters, nor a long name.
Positional_doc ==
  /\ pc = "head"
  /\ idx # Len(args)
  /\ At(args, idx) # tSep
  /\ ~(/\ Len(At(args, idx)) >= 2
       /\ At(args, idx)[1] = hyphen
       /\ \A k \in 2..Len(At(args, idx)) : At(args, idx)[k] # hyphen)
  /\ ~(Len(At(args, idx)) >= 3 /\ startsWith(At(args, idx), tSep))
  /\ return(Right(Pair(conf, slice(args, idx))))
  /\ trace' = Append(trace, Ev("positional", idx, <<>>, <<>>))
  /\ UNCHANGED <<inputs, conf, idx>>

\* else if (!(args[idx].startsWith ('-'))) return Right (Pair (conf) (args.slice (idx)));
Positional ==
  /\ pc = "head"
  /\ idx # Len(args)
  /\ At(args, idx) # tDash
  /\ At(args, idx) # tSep
  /\ ~startsWith(At(args, idx), <<hyphen>>)
  /\ return(Right(Pair(conf, slice(args, idx))))
  /\ trace' = Append(trace, Ev("positional", idx, <<>>, <<>>))
  /\ UNCHANGED <<inputs, conf, idx>>

\* else for (const name of names (args[idx])) ...: the inner loop starts
Expand ==
  /\ pc = "head"
  /\ idx # Len(args)
  /\ At(args, idx) # tDash
  /\ At(args, idx) # tSep
  /\ startsWith(At(args, idx), <<hyphen>>)
  /\ pending' = names(At(args, idx))
  /\ pc' = "names"
  /\ trace' = Append(trace, Ev("names", idx, <<>>, <<>>))
  /\ UNCHANGED <<inputs, conf, idx, returned>>

\* NextArg without idx += 1.
NextArg_stay ==
  /\ pc = "names"
  /\ pending = <<>>
  /\ pc' = "head"
  /\ UNCHANGED <<inputs, conf, idx, pending, returned, trace>>

\* NextArg that steps over one more argument for an Option the token held.
NextArg_double ==
  /\ pc = "names"
  /\ pending = <<>>
  /\ idx' = IF idx > tokenIndex THEN idx + 2 ELSE idx + 1
  /\ pc' = "head"
  /\ UNCHANGED <<inputs, conf, pending, returned, trace>>

\* the inner loop has taken every name: idx += 1 and back to the test
NextArg ==
  /\ pc = "names"
  /\ pending = <<>>
  /\ idx' = idx + 1
  /\ pc' = "head"
  /\ UNCHANGED <<inputs, conf, pending, returned, trace>>

\* Unrecognized reporting the whole argument instead of the name.
Unrecognized_argument ==
  /\ pc = "names"
  /\ pending # <<>>
  /\ LET name == Head(pending) IN
       /\ ~propertyIsEnumerable(spec, name)
       /\ return(Left(At(args, tokenIndex) \o <<" is unrecognized">>))
       /\ trace' = Append(trace, Ev("lookup", tokenIndex, name, <<>>))
  /\ UNCHANGED <<inputs, conf, idx>>

\* Unrecognized that passes over the unknown name instead of returning.
Unrecognized_skip ==
  /\ pc = "names"
  /\ pending # <<>>
  /\ LET name == Head(pending) IN
       /\ ~propertyIsEnumerable(spec, name)
       /\ trace' = Append(trace, Ev("lookup", tokenIndex, name, <<>>))
  /\ pending' = Tail(pending)
  /\ UNCHANGED <<inputs, conf, idx, pc, returned>>

\* if (!(propertyIsEnumerable.call (spec, name))) return Left (name + ' is unrecognized');
Unrecognized ==
  /\ pc = "names"
  /\ pending # <<>>
  /\ LET name == Head(pending) IN
       /\ ~propertyIsEnumerable(spec, name)
       /\ return(Left(name \o <<" is unrecognized">>))
       /\ trace' = Append(trace, Ev("lookup", tokenIndex, name, <<>>))
  /\ UNCHANGED <<inputs, conf, idx>>

\* ApplyFlag applying the setter to the initial configuration value.
ApplyFlag_init ==
  /\ pc = "names"
  /\ pending # <<>>
  /\ LET name == Head(pending) IN
       /\ propertyIsEnumerable(spec, name)
       /\ spec[name].isLeft
       /\ conf' = apply(spec[name].value, init)
       /\ trace' = trace \o <<Ev("lookup", tokenIndex, name, <<>>),
                              Ev("apply", tokenIndex, name, spec[name].value)>>
  /\ pending' = Tail(pending)
  /\ UNCHANGED <<inputs, idx, pc, returned>>

\* ApplyFlag that moves to the next argument as an Option does.
ApplyFlag_consume ==
  /\ pc = "names"
  /\ pending # <<>>
  /\ LET name == Head(pending) IN
       /\ propertyIsEnumerable(spec, name)
       /\ spec[name].isLeft
       /\ conf' = apply(spec[name].value, conf)
       /\ trace' = trace \o <<Ev("lookup", tokenIndex, name, <<>>),
                              Ev("apply", tokenIndex, name, spec[name].value)>>
  /\ pending' = Tail(pending)
  /\ idx' = idx + 1
  /\ UNCHANGED <<inputs, pc, returned>>

\* else if ((either = spec[name]).isLeft) conf = either.value (conf);
ApplyFlag ==
  /\ pc = "names"
  /\ pending # <<>>
  /\ LET name == Head(pending) IN
       /\ propertyIsEnumerable(spec, name)
       /\ spec[name].isLeft
       /\ conf' = apply(spec[name].value, conf)
       /\ trace' = trace \o <<Ev("lookup", tokenIndex, name, <<>>),
                              Ev("apply", tokenIndex, name, spec[name].value)>>
  /\ pending' = Tail(pending)
  /\ UNCHANGED <<inputs, idx, pc, returned>>

\* RequiresValue reporting the whole argument instead of the name.
RequiresValue_argument ==
  /\ pc = "names"
  /\ pending # <<>>
  /\ LET name == Head(pending) IN
       /\ propertyIsEnumerable(spec, name)
       /\ ~spec[name].isLeft
       /\ idx + 1 = Len(args)
       /\ return(Left(At(args, idx) \o <<" requires a value">>))
       /\ trace' = Append(trace, Ev("lookup", tokenIndex, name, <<>>))
  /\ idx' = idx + 1
  /\ UNCHANGED <<inputs, conf>>

\* else if ((idx += 1) === args.length) return Left (name + ' requires a value');
RequiresValue ==
  /\ pc = "names"
  /\ pending # <<>>
  /\ LET name == Head(pending) IN
       /\ propertyIsEnumerable(spec, name)
       /\ ~spec[name].isLeft
       /\ idx + 1 = Len(args)
       /\ return(Left(name \o <<" requires a value">>))
       /\ trace' = Append(trace, Ev("lookup", tokenIndex, name, <<>>))
  /\ idx' = idx + 1
  /\ UNCHANGED <<inputs, conf>>

\* ValidatorRejects that puts the option's name before the validator's message.
ValidatorRejects_named ==
  /\ pc = "names"
  /\ pending # <<>>
  /\ LET name == Head(pending) IN
       /\ propertyIsEnumerable(spec, name)
       /\ ~spec[name].isLeft
       /\ idx + 1 # Len(args)
       /\ LET either == validate(spec[name].value, At(args, idx + 1)) IN
            /\ either.isLeft
            /\ return(Left(name \o <<": ">> \o either.value))
       /\ trace' = trace \o <<Ev("lookup", tokenIndex, name, <<>>),
                              Ev("validate", idx + 1, name, At(args, idx + 1))>>
  /\ idx' = idx + 1
  /\ UNCHANGED <<inputs, conf>>

\* ValidatorRejects that drops the rejected value and goes on.
ValidatorRejects_skip ==
  /\ pc = "names"
  /\ pending # <<>>
  /\ LET name == Head(pending) IN
       /\ propertyIsEnumerable(spec, name)
       /\ ~spec[name].isLeft
       /\ idx + 1 # Len(args)
       /\ validate(spec[name].value, At(args, idx + 1)).isLeft
       /\ trace' = trace \o <<Ev("lookup", tokenIndex, name, <<>>),
                              Ev("validate", idx + 1, name, At(args, idx + 1))>>
  /\ idx' = idx + 1
  /\ pending' = Tail(pending)
  /\ UNCHANGED <<inputs, conf, pc, returned>>

\* else if ((either = either.value (args[idx])).isLeft) return either;
ValidatorRejects ==
  /\ pc = "names"
  /\ pending # <<>>
  /\ LET name == Head(pending) IN
       /\ propertyIsEnumerable(spec, name)
       /\ ~spec[name].isLeft
       /\ idx + 1 # Len(args)
       /\ LET either == validate(spec[name].value, At(args, idx + 1)) IN
            /\ either.isLeft
            /\ return(either)
       /\ trace' = trace \o <<Ev("lookup", tokenIndex, name, <<>>),
                              Ev("validate", idx + 1, name, At(args, idx + 1))>>
  /\ idx' = idx + 1
  /\ UNCHANGED <<inputs, conf>>

\* ApplyOption reading args[idx + 1] without advancing idx: the outer loop
\* then comes to the value as to any argument.
ApplyOption_peek ==
  /\ pc = "names"
  /\ pending # <<>>
  /\ LET name == Head(pending) IN
       /\ propertyIsEnumerable(spec, name)
       /\ ~spec[name].isLeft
       /\ idx + 1 # Len(args)
       /\ LET either == validate(spec[name].value, At(args, idx + 1)) IN
            /\ ~either.isLeft
            /\ conf' = apply(either.value, conf)
            /\ trace' = trace \o <<Ev("lookup", tokenIndex, name, <<>>),
                                   Ev("validate", idx + 1, name, At(args, idx + 1)),
                                   Ev("apply", idx + 1, name, either.value)>>
  /\ pending' = Tail(pending)
  /\ UNCHANGED <<inputs, idx, pc, returned>>

\* ApplyOption giving every Option of a cluster the argument after the cluster.
ApplyOption_first ==
  /\ pc = "names"
  /\ pending # <<>>
  /\ LET name == Head(pending) IN
       /\ propertyIsEnumerable(spec, name)
       /\ ~spec[name].isLeft
       /\ idx + 1 # Len(args)
       /\ LET either == validate(spec[name].value, At(args, tokenIndex + 1)) IN
            /\ ~either.isLeft
            /\ conf' = apply(either.value, conf)
            /\ trace' = trace \o <<Ev("lookup", tokenIndex, name, <<>>),
                                   Ev("validate", idx + 1, name, At(args, tokenIndex + 1)),
                                   Ev("apply", idx + 1, name, either.value)>>
  /\ idx' = idx + 1
  /\ pending' = Tail(pending)
  /\ UNCHANGED <<inputs, pc, returned>>

\* else conf = either.value (conf);
ApplyOption ==
  /\ pc = "names"
  /\ pending # <<>>
  /\ LET name == Head(pending) IN
       /\ propertyIsEnumerable(spec, name)
       /\ ~spec[name].isLeft
       /\ idx + 1 # Len(args)
       /\ LET either == validate(spec[name].value, At(args, idx + 1)) IN
            /\ ~either.isLeft
            /\ conf' = apply(either.value, conf)
            /\ trace' = trace \o <<Ev("lookup", tokenIndex, name, <<>>),
                                   Ev("validate", idx + 1, name, At(args, idx + 1)),
                                   Ev("apply", idx + 1, name, either.value)>>
  /\ idx' = idx + 1
  /\ pending' = Tail(pending)
  /\ UNCHANGED <<inputs, pc, returned>>

Next ==
  \/ AtEnd
  \/ LoneDash
  \/ Separator
  \/ Positional
  \/ Expand
  \/ NextArg
  \/ Unrecognized
  \/ ApplyFlag
  \/ RequiresValue
  \/ ValidatorRejects
  \/ ApplyOption

Spec == Init /\ [][Next]_vars

\* The loop is synchronous code: it takes its next step as long as it has one.
FairSpec == Spec /\ WF_vars(Next)

\* ------------------------------------------------------------ the function
\* parseArgs as the function it is: loop is the outer for at (conf, idx),
\* inner the for-of over the names still to take of args[idx].
RECURSIVE loop(_, _, _, _), inner(_, _, _, _, _)
loop(s, as, c, i) ==
  IF i = Len(as) THEN Right(Pair(c, <<>>))
  ELSE IF At(as, i) = tDash THEN Left(<<"- is not a valid flag or option name">>)
  ELSE IF At(as, i) = tSep THEN Right(Pair(c, slice(as, i + 1)))
  ELSE IF ~startsWith(At(as, i), <<hyphen>>) THEN Right(Pair(c, slice(as, i)))
  ELSE inner(s, as, c, i, names(At(as, i)))

inner(s, as, c, i, ns) ==
  IF ns = <<>> THEN loop(s, as, c, i + 1)
  ELSE LET name == Head(ns) IN
    IF ~propertyIsEnumerable(s, name) THEN Left(name \o <<" is unrecognized">>)
    ELSE IF s[name].isLeft THEN inner(s, as, apply(s[name].value, c), i, Tail(ns))
    ELSE IF i + 1 = Len(as) THEN Left(name \o <<" requires a value">>)
    ELSE LET either == validate(s[name].value, At(as, i + 1)) IN
      IF either.isLeft THEN either
      ELSE inner(s, as, apply(either.value, c), i + 1, Tail(ns))

parseArgs(s, p) == loop(s, p.snd, p.fst, 0)

\* The run of the loop returns what the function returns.
RunIsFunction ==
  pc = "done" => returned = <<parseArgs(spec, Pair(init, args))>>

\* ------------------------------------------------------------ reading a run
Done == pc = "done"

\* The value returned (of a finished run).
result == returned[1]

\* The scan reached args[i] in name position and expanded it into names.
Expanded(i) == \E k \in Events("names") : trace[k].idx = i

\* /^-[^-]{2,}$/: a hyphen followed by two or more non-hyphen characters.
isCluster(t) ==
  /\ Len(t) >= 3
  /\ t[1] = hyphen
  /\ \A k \in 2..Len(t) : t[k] # hyphen

\* The separate tokens -x, -y, -z of the cluster -xyz.
separate(t) == [k \in 1..(Len(t) - 1) |-> <<hyphen, t[k + 1]>>]

\* as with as[i] replaced by the tokens ts.
replaceAt(as, i, ts) == SubSeq(as, 1, i) \o ts \o SubSeq(as, i + 2, Len(as))

isFlag(s, name) == propertyIsEnumerable(s, name) /\ s[name].isLeft

isOption(s, name) == propertyIsEnumerable(s, name) /\ ~s[name].isLeft

\* No Option of the names ns is dispatched before the last name: the first
\* name that is not a Flag, if any, is unrecognized or is the last one.
OptionOnlyLast(s, ns) ==
  \A k \in 1..Len(ns) :
    (isOption(s, ns[k]) /\ \A j \in 1..(k - 1) : isFlag(s, ns[j])) => k = Len(ns)

\* ------------------------------------------------------------ C1
\* C1 as stated: replacing a cluster -xyz the scan expands by -x, -y, -z
\* gives the identical result, whatever handlers the names have.
C1_ClusterEquivalenceAny ==
  Done =>
    \A i \in 0..(Len(args) - 1) :
      (isCluster(At(args, i)) /\ Expanded(i)) =>
        result = parseArgs(spec, Pair(init, replaceAt(args, i, separate(At(args, i)))))

\* C1 amended: replacing a cluster -xyz that the scan reaches in name
\* position by the separate tokens -x, -y, -z gives the identical result
\* (same error, or same configuration and positionals) provided no Option
\* of the cluster is dispatched before the cluster's last name.
C1_ClusterEquivalence ==
  Done =>
    \A i \in 0..(Len(args) - 1) :
      (/\ isCluster(At(args, i))
       /\ Expanded(i)
       /\ OptionOnlyLast(spec, separate(At(args, i)))) =>
        result = parseArgs(spec, Pair(init, replaceAt(args, i, separate(At(args, i)))))

\* A cluster whose last name is an Option consumed the next argument, and
\* the run succeeded.
C1_Witness ==
  /\ Done
  /\ ~result.isLeft
  /\ \E i \in 0..(Len(args) - 1) :
       /\ isCluster(At(args, i))
       /\ Expanded(i)
       /\ OptionOnlyLast(spec, separate(At(args, i)))
       /\ isOption(spec, separate(At(args, i))[Len(At(args, i)) - 1])
       /\ \E k \in Events("validate") : trace[k].idx = i + 1

\* ------------------------------------------------------------ C2
\* The operations that classify args[idx] at the loop's test.
ClassifyOps == {"end", "dash", "separator", "positional", "names"}

\* The operations that look a name up, validate a value or apply a setter.
HandlerOps == {"lookup", "validate", "apply"}

\* The loop's test classified args[i] as op.
Classified(op, i) == \E k \in Events(op) : trace[k].idx = i

\* The loop's test came to args[i] (the scan reached it in name position).
Reached(i) == \E k \in 1..Len(trace) : trace[k].op \in ClassifyOps /\ trace[k].idx = i

\* The largest index of an argument read before event k.
lastRead(k) ==
  LET js == {trace[m].idx : m \in {n \in 1..(k - 1) : trace[n].op \in {"names", "validate"}}}
  IN CHOOSE j \in js : \A h \in js : h <= j

\* The configuration parseArgs makes of the arguments before index i alone.
confOfPrefix(i) == parseArgs(spec, Pair(init, SubSeq(args, 1, i))).value.fst

\* C2 as stated: for any xs and ys, parseArgs on xs ++ ["--"] ++ ys
\* succeeds, applies handlers for tokens of xs only and returns exactly ys.
C2_SeparatorAnyPrefix ==
  Done =>
    \A i \in 0..(Len(args) - 1) :
      At(args, i) = tSep =>
        /\ ~result.isLeft
        /\ result.value.snd = slice(args, i + 1)
        /\ \A k \in 1..Len(trace) : trace[k].op \in HandlerOps => trace[k].idx < i

\* C2 amended: when the scan reaches "--" in name position at index i (xs =
\* args[0..i) was consumed as names and option values without error, and the
\* "--" is not the value of an Option), parseArgs succeeds with the
\* configuration xs alone produces and the positionals ys = args[i+1..],
\* unchanged, and no handler is looked up, called or applied for "--" or ys.
C2_Separator ==
  Done =>
    \A i \in 0..(Len(args) - 1) :
      (At(args, i) = tSep /\ Reached(i)) =>
        /\ ~result.isLeft
        /\ result.value.snd = slice(args, i + 1)
        /\ result.value.fst = confOfPrefix(i)
        /\ \A k \in 1..Len(trace) : trace[k].op \in HandlerOps => trace[k].idx < i

\* The separator was reached after a handler was applied, and what follows
\* it holds another "--", a "-" or a name of the specification.
C2_Witness ==
  /\ Done
  /\ \E i \in 1..(Len(args) - 1) :
       /\ Classified("separator", i)
       /\ Events("apply") # {}
       /\ \E j \in (i + 1)..(Len(args) - 1) :
            At(args, j) \in {tSep, tDash} \/ propertyIsEnumerable(spec, At(args, j))

\* ------------------------------------------------------------ C3
\* C3: the argument after a dispatched Option name is passed unchanged to
\* the validator, is never classified by the loop's test (whatever it looks
\* like), and every later read of an argument is beyond it, starting with
\* the argument right after it.
C3_OptionValueOpaque ==
  /\ \A k \in Events("lookup") :
       isOption(spec, trace[k].name) =>
         IF lastRead(k) + 1 < Len(args)
         THEN /\ k < Len(trace)
              /\ trace[k + 1].op = "validate"
              /\ trace[k + 1].name = trace[k].name
              /\ trace[k + 1].idx = lastRead(k) + 1
         ELSE k = Len(trace)
  /\ \A k \in Events("validate") :
    LET j == trace[k].idx
        later == {m \in (k + 1)..Len(trace) : trace[m].op \in ClassifyOps \cup {"validate"}}
    IN
    /\ j < Len(args)
    /\ trace[k].arg = At(args, j)
    /\ \A m \in 1..Len(trace) : trace[m].op \in ClassifyOps => trace[m].idx # j
    /\ \A m \in later : trace[m].idx > j
    /\ \A m \in later : (\A n \in later : m <= n) => trace[m].idx = j + 1
    /\ pc = "head" => idx > j

\* A value that is "--", "-" or a name of the specification was accepted
\* by a validator, and the scan went on to classify the argument after it.
C3_Witness ==
  \E k \in Events("validate") :
    /\ trace[k].arg \in {tSep, tDash} \/ propertyIsEnumerable(spec, trace[k].arg)
    /\ \E m \in Events("apply") : m = k + 1
    /\ \E m \in (k + 1)..Len(trace) :
         trace[m].op \in ClassifyOps /\ trace[m].idx = trace[k].idx + 1

\* ------------------------------------------------------------ C4
\* C4: when the loop's test reaches at index i an argument that does not
\* start with a hyphen, parseArgs succeeds with the configuration made of
\* the arguments before i and the positionals args[i..], and no handler is
\* looked up, called or applied for an argument at index >= i.
C4_FirstPositional ==
  Done =>
    \A i \in 0..(Len(args) - 1) :
      (~startsWith(At(args, i), <<hyphen>>) /\ Reached(i)) =>
        /\ ~result.isLeft
        /\ result.value.snd = slice(args, i)
        /\ result.value.fst = confOfPrefix(i)
        /\ result.value.fst = conf
        /\ \A k \in 1..Len(trace) : trace[k].op \in HandlerOps => trace[k].idx < i

\* A positional was reached after a handler was applied, and a later
\* argument is "--", "-" or a name of the specification.
C4_Witness ==
  /\ Done
  /\ \E i \in 1..(Len(args) - 1) :
       /\ Classified("positional", i)
       /\ Events("apply") # {}
       /\ \E j \in (i + 1)..(Len(args) - 1) :
            At(args, j) \in {tSep, tDash} \/ propertyIsEnumerable(spec, At(args, j))

\* ------------------------------------------------------------ C5
\* The scan position when event k happened has no argument after it.
NoNextArgument(k) == lastRead(k) + 1 >= Len(args)

requiresValue(name) == Left(name \o <<" requires a value">>)

\* C5: when a name whose handler is an Option is dispatched and no argument
\* follows the scan position, parseArgs returns "<name> requires a value"
\* with the dispatched name, the validator is not called and no
\* configuration is returned.
C5_MissingValue ==
  \A k \in Events("lookup") :
    (isOption(spec, trace[k].name) /\ NoNextArgument(k)) =>
      /\ k = Len(trace)
      /\ Done
      /\ returned = <<requiresValue(trace[k].name)>>

\* The Option without a value is a name of a cluster that is not its last.
C5_Witness ==
  /\ Done
  /\ \E k \in Events("lookup") :
       /\ isOption(spec, trace[k].name)
       /\ NoNextArgument(k)
       /\ isCluster(At(args, trace[k].idx))
       /\ trace[k].name # separate(At(args, trace[k].idx))[Len(At(args, trace[k].idx)) - 1]
       /\ returned = <<requiresValue(trace[k].name)>>

\* ------------------------------------------------------------ C6
unrecognized(name) == Left(name \o <<" is unrecognized">>)

\* C6: when a dispatched name is not a key of the specification, parseArgs
\* returns "<name> is unrecognized" at once: nothing is looked up, called,
\* applied or read after it, and the run has no further step.
C6_Unrecognized ==
  /\ \A k \in Events("lookup") :
       ~propertyIsEnumerable(spec, trace[k].name) =>
         /\ k = Len(trace)
         /\ Done
         /\ returned = <<unrecognized(trace[k].name)>>
  /\ Done => ~ENABLED Next

\* The unrecognized name is followed by a name in its cluster and by a
\* later argument.
C6_Witness ==
  /\ Done
  /\ \E k \in Events("lookup") :
       /\ ~propertyIsEnumerable(spec, trace[k].name)
       /\ isCluster(At(args, trace[k].idx))
       /\ trace[k].name = separate(At(args, trace[k].idx))[1]
       /\ trace[k].idx + 1 < Len(args)
       /\ returned = <<unrecognized(trace[k].name)>>

\* ------------------------------------------------------------ C7
\* Event k meets a condition of error: a lone dash, an unrecognized name,
\* an Option without a value, a value its validator rejects.
ErrorAt(k) ==
  \/ trace[k].op = "dash"
  \/ trace[k].op = "lookup" /\ ~propertyIsEnumerable(spec, trace[k].name)
  \/ trace[k].op = "lookup" /\ isOption(spec, trace[k].name) /\ NoNextArgument(k)
  \/ trace[k].op = "validate" /\ validate(spec[trace[k].name].value, trace[k].arg).isLeft

\* The error of event k.
errorOf(k) ==
  CASE trace[k].op = "dash" -> Left(<<"- is not a valid flag or option name">>)
    [] trace[k].op = "validate" -> validate(spec[trace[k].name].value, trace[k].arg)
    [] trace[k].op = "lookup" /\ ~propertyIsEnumerable(spec, trace[k].name) ->
         unrecognized(trace[k].name)
    [] OTHER -> requiresValue(trace[k].name)

\* The number of arguments the run has read.
argumentsRead ==
  LET js == {trace[m].idx + 1 :
               m \in {n \in 1..Len(trace) : trace[n].op \in (ClassifyOps \ {"end"}) \cup {"validate"}}}
  IN IF js = {} THEN 0 ELSE CHOOSE j \in js : \A h \in js : h <= j

\* C7: the first condition of error the scan meets ends it: that event is
\* the last of the run, its error alone is returned (no configuration), and
\* the result is that of the arguments read so far, whatever follows them.
C7_LeftmostError ==
  /\ \A k \in 1..Len(trace) :
       ErrorAt(k) => (k = Len(trace) /\ Done /\ returned = <<errorOf(k)>>)
  /\ (Done /\ result.isLeft) =>
       /\ ErrorAt(Len(trace))
       /\ result = parseArgs(spec, Pair(init, SubSeq(args, 1, argumentsRead)))

\* An error was returned after a setter had changed the configuration, and
\* an argument not read would have been an error too.
C7_Witness ==
  /\ Done
  /\ result.isLeft
  /\ conf # init
  /\ \E j \in argumentsRead..(Len(args) - 1) :
       At(args, j) = tDash \/ At(args, j) = tD \/ At(args, j) = tDC

\* ------------------------------------------------------------ C8
notHyphen(c) == c # hyphen

\* The names an argument in name position stands for, in the order of its
\* characters: itself for a long name, -x for each character x otherwise.
namesInOrder(t) ==
  IF startsWith(t, tSep) THEN <<t>> ELSE separate(<<hyphen>> \o SelectSeq(Tail(t), notHyphen))

\* The names of the arguments the scan expanded, from index i on, in order.
RECURSIVE dispatchOrder(_)
dispatchOrder(i) ==
  IF i >= Len(args) THEN <<>>
  ELSE (IF Classified("names", i) THEN namesInOrder(At(args, i)) ELSE <<>>)
       \o dispatchOrder(i + 1)

\* The events of the run with operation op, as a sequence in run order.
isApply(e) == e.op = "apply"

applied == SelectSeq(trace, isApply)

\* The setter the specification gives for an apply event.
setterOf(e) ==
  IF spec[e.name].isLeft THEN spec[e.name].value
  ELSE validate(spec[e.name].value, At(args, e.idx)).value

\* c with the setters of the events es applied one after another.
RECURSIVE applyAll(_, _)
applyAll(c, es) == IF es = <<>> THEN c ELSE applyAll(apply(setterOf(Head(es)), c), Tail(es))

\* C8: on success the setters applied are those of the dispatched names in
\* scan order (argument order, character order inside a cluster), an
\* Option's setter being made of the value it consumed, values being
\* consumed in argument order, and the final
\* configuration is the initial one with these setters applied one after
\* another, each to the configuration the previous one produced.
C8_LeftToRight ==
  (Done /\ ~result.isLeft) =>
    /\ [k \in 1..Len(applied) |-> applied[k].name] = dispatchOrder(0)
    /\ \A k \in 1..Len(applied) : applied[k].arg = setterOf(applied[k])
    /\ \A k, n \in 1..Len(applied) :
         (k < n /\ isOption(spec, applied[k].name) /\ isOption(spec, applied[n].name)) =>
           applied[k].idx < applied[n].idx
    /\ result.value.fst = applyAll(init, applied)

\* Three setters were applied; the last two write the colour, to different
\* values, and the configuration returned has the colour the later one set.
C8_Witness ==
  /\ Done
  /\ ~result.isLeft
  /\ Len(applied) = 3
  /\ applied[2].arg.fn = "color"
  /\ applied[3].arg.fn = "noColor"
  /\ result.value.fst.color = FALSE
  /\ result.value.fst # init

\* ------------------------------------------------------------ C9
\* The indices of the arguments the run read, in the order it read them.
isRead(e) == e.op \in (ClassifyOps \ {"end"}) \cup {"validate"}

reads == SelectSeq(trace, isRead)

\* C9: the scan terminates and returns exactly one value, Left of a message
\* or Right of a pair; idx never decreases and has grown by one each time
\* the loop comes back to its test, so every argument is read at most once.
C9_Totality ==
  /\ <>Done
  /\ [](Len(returned) = (IF Done THEN 1 ELSE 0))
  /\ [](Done => \/ (result.isLeft /\ DOMAIN result = {"isLeft", "value"})
               \/ (~result.isLeft /\ DOMAIN result.value = {"fst", "snd"}))
  /\ [](\A k \in 1..(Len(reads) - 1) : reads[k].idx < reads[k + 1].idx)
  /\ [][idx' >= idx /\ (pc' = "head" => idx' = idx + 1) /\ ~Done]_vars

\* A finished run that came back to the loop's test several times.
C9_Witness ==
  /\ Done
  /\ Len(returned) = 1
  /\ idx >= 2
  /\ Len(reads) >= 3

\* ------------------------------------------------------------ C10
loneDash == Left(<<"- is not a valid flag or option name">>)

notAnEmail(s) == Left(<<"\"">> \o s \o <<"\"", " is not a valid email address">>)

\* C11: when a validator returns an error message for the value it is
\* given, parseArgs returns exactly that message, the run ends there (no
\* later argument is read) and the configuration is not returned.
C11_ValidatorRejection ==
  \A k \in Events("validate") :
    LET either == validate(spec[trace[k].name].value, At(args, trace[k].idx)) IN
    either.isLeft =>
      /\ k = Len(trace)
      /\ Done
      /\ returned = <<either>>
      /\ returned = <<notAnEmail(At(args, trace[k].idx))>>
      /\ argumentsRead = trace[k].idx + 1

\* A value was rejected after a setter had changed the configuration, and
\* an unrecognized name follows the value.
C11_Witness ==
  /\ Done
  /\ conf # init
  /\ \E k \in Events("validate") :
       /\ returned = <<notAnEmail(trace[k].arg)>>
       /\ trace[k].idx + 1 < Len(args)
       /\ startsWith(At(args, trace[k].idx + 1), <<hyphen>>)
       /\ At(args, trace[k].idx + 1) \notin {tDash, tSep}
       /\ ~propertyIsEnumerable(spec, names(At(args, trace[k].idx + 1))[1])

\* ------------------------------------------------------------ C12
\* args[i] was taken as a flag or option name, or as an option's value.
Consumed(i) == Classified("names", i) \/ (\E k \in Events("validate") : trace[k].idx = i)

\* Every argument was taken as a name or a value, and none met an error.
AllConsumed ==
  /\ \A i \in 0..(Len(args) - 1) : Consumed(i)
  /\ \A k \in 1..Len(trace) : ~ErrorAt(k)

\* C12: parseArgs on no arguments returns the initial configuration and no
\* positionals; and when every argument is consumed as a flag name, an
\* option name or an option value without error, it returns the current
\* configuration (the setters applied in order) and no positionals.
C12_EndOfInput ==
  /\ (Done /\ args = <<>>) => returned = <<Right(Pair(init, <<>>))>>
  /\ (Done /\ AllConsumed) =>
       /\ returned = <<Right(Pair(conf, <<>>))>>
       /\ conf = applyAll(init, applied)
  /\ (pc = "head" /\ idx = Len(args)) => AllConsumed

\* Three arguments were all consumed, one of them as a value, and the
\* configuration returned is not the initial one.
C12_Witness ==
  /\ Done
  /\ AllConsumed
  /\ Len(args) = 3
  /\ Events("validate") # {}
  /\ ~result.isLeft
  /\ result.value.fst # init

\* ------------------------------------------------------------ C13
\* The number of Options among the first q of the names ns.
optionsUpTo(ns, q) == Cardinality({j \in 1..q : isOption(spec, ns[j])})

\* The first q names of ns, taken from args[i], are dispatched without
\* error: each is a Flag, or an Option whose value exists and is accepted.
dispatchedOK(i, ns, q) ==
  \A j \in 1..q :
    \/ isFlag(spec, ns[j])
    \/ /\ isOption(spec, ns[j])
       /\ i + optionsUpTo(ns, j) < Len(args)
       /\ ~validate(spec[ns[j]].value, At(args, i + optionsUpTo(ns, j))).isLeft

\* The position in ns of the first name that is no key of the specification.
isFirstAbsent(ns, p) ==
  /\ ~propertyIsEnumerable(spec, ns[p])
  /\ \A j \in 1..(p - 1) : propertyIsEnumerable(spec, ns[j])

\* C13 as stated: a short name absent from the specification makes
\* parseArgs fail as it does standing alone, wherever it is in its cluster.
C13_AbsentAnywhere ==
  Done =>
    \A i \in 0..(Len(args) - 1) :
      LET ns == namesInOrder(At(args, i)) IN
      (Classified("names", i) /\ ~startsWith(At(args, i), tSep)) =>
        \A p \in 1..Len(ns) :
          isFirstAbsent(ns, p) =>
            returned = <<parseArgs(spec, Pair(init, <<ns[p]>>))>>

\* C13 amended: a short name absent from the specification makes parseArgs
\* fail with "<name> is unrecognized", as it does standing alone, whether
\* it is a token of its own, the first name of a cluster or a later name,
\* provided the names before it in the cluster are dispatched without
\* error (an Option before it finds its value and the value is accepted).
C13_AbsentSameError ==
  Done =>
    \A i \in 0..(Len(args) - 1) :
      LET ns == namesInOrder(At(args, i)) IN
      (Classified("names", i) /\ ~startsWith(At(args, i), tSep)) =>
        \A p \in 1..Len(ns) :
          (isFirstAbsent(ns, p) /\ dispatchedOK(i, ns, p - 1)) =>
            /\ returned = <<parseArgs(spec, Pair(init, <<ns[p]>>))>>
            /\ returned = <<unrecognized(ns[p])>>

\* The absent name is a later name of a cluster, after an Option that
\* consumed its value.
C13_Witness ==
  /\ Done
  /\ \E i \in 0..(Len(args) - 1) :
       LET ns == namesInOrder(At(args, i)) IN
       /\ Classified("names", i)
       /\ isCluster(At(args, i))
       /\ \E p \in 2..Len(ns) :
            /\ isFirstAbsent(ns, p)
            /\ dispatchedOK(i, ns, p - 1)
            /\ optionsUpTo(ns, p - 1) > 0
            /\ returned = <<unrecognized(ns[p])>>

\* ------------------------------------------------------------ C14
\* The documented shapes of an argument: /^-[^-]$/, /^--[^]+$/ and
\* /^-[^-]{2,}$/ (isCluster); the separator is tSep.
isShortName(t) == Len(t) = 2 /\ t[1] = hyphen /\ t[2] # hyphen

isLongName(t) == Len(t) >= 3 /\ startsWith(t, tSep)

\* The documented case (4): neither the separator nor a cluster nor a name.
isOther(t) == ~(t = tSep \/ isCluster(t) \/ isShortName(t) \/ isLongName(t))

\* The classification events of the run, "end" apart.
Classifications == {k \in 1..Len(trace) : trace[k].op \in ClassifyOps \ {"end"}}

\* The branch the loop's test takes for the argument t.
branchOf(t) ==
  IF t = tDash THEN "dash"
  ELSE IF t = tSep THEN "separator"
  ELSE IF startsWith(t, <<hyphen>>) THEN "names"
  ELSE "positional"

replacedBySetter ==
  /\ Len(trace') > Len(trace)
  /\ SubSeq(trace', 1, Len(trace)) = trace
  /\ trace'[Len(trace')].op = "apply"
  /\ conf' = apply(setterOf(trace'[Len(trace')]), conf)

\* C15: no step of the scan changes the argument list, the specification
\* or the initial configuration, whatever the outcome, and the current
\* configuration changes only by being replaced with the value a setter
\* returns for it.
C15_InputsUnchanged ==
  [][/\ args' = args
     /\ spec' = spec
     /\ init' = init
     /\ conf' # conf => replacedBySetter]_vars

\* A run that replaced the configuration, read an option value and returned
\* positionals after a separator, with every value read still in its place.
C15_Witness ==
  /\ Done
  /\ conf # init
  /\ ~result.isLeft
  /\ result.value.snd # <<>>
  /\ \E i \in 0..(Len(args) - 1) :
       Classified("separator", i) /\ result.value.snd = slice(args, i + 1)
  /\ \A k \in Events("validate") : trace[k].arg = At(args, trace[k].idx)

\* ------------------------------------------------------------ C16
\* The classification events of the run, "end" included.
Tests == {k \in 1..Len(trace) : trace[k].op \in ClassifyOps}

\* The last test of the loop head before event h.
testBefore(h) == CHOOSE k \in Tests : k < h /\ \A m \in Tests : m < h => m <= k

\* The index of the argument after args[i] and the values its Options took.
afterToken(i) ==
  LET ns == namesInOrder(At(args, i)) IN i + 1 + optionsUpTo(ns, Len(ns))

\* C16: when the names of the token at index i are all dispatched without
\* error, the next test of the loop head is at index i + 1 + k, k being the
\* number of those names whose handler is an Option (i + 1 for a token made
\* of flags only); while the names are dispatched, idx has advanced by the
\* number of Options dispatched so far and by nothing for a Flag.
C16_ConsumptionCount ==
  /\ pc = "names" =>
       LET ns == namesInOrder(At(args, tokenIndex)) IN
       idx = tokenIndex + optionsUpTo(ns, Len(ns) - Len(pending))
  /\ (pc = "head" /\ trace # <<>>) =>
       LET k == testBefore(Len(trace) + 1) IN
       /\ trace[k].op = "names"
       /\ dispatchedOK(trace[k].idx, namesInOrder(At(args, trace[k].idx)),
                       Len(namesInOrder(At(args, trace[k].idx))))
       /\ idx = afterToken(trace[k].idx)
  /\ \A h \in Tests :
       (\E k \in Tests : k < h) =>
         LET k == testBefore(h) IN
         /\ trace[k].op = "names"
         /\ trace[h].idx = afterToken(trace[k].idx)
         /\ (\A m \in (k + 1)..(h - 1) :
               trace[m].op = "lookup" => isFlag(spec, trace[m].name))
              => trace[h].idx = trace[k].idx + 1

\* A cluster with two Options and a Flag at index 0, then the end of input
\* is tested at index 3.
C16_Witness ==
  /\ Done
  /\ Len(args) = 3
  /\ isCluster(At(args, 0))
  /\ Len(namesInOrder(At(args, 0))) = 3
  /\ optionsUpTo(namesInOrder(At(args, 0)), 3) = 2
  /\ Classified("end", 3)
  /\ Cardinality(Tests) = 2

\* ------------------------------------------------------------ C17
\* The token at index i is a single-hyphen token of several names.
severalNames(i) ==
  /\ Classified("names", i)
  /\ ~startsWith(At(args, i), tSep)
  /\ Len(namesInOrder(At(args, i))) >= 2

\* The validate event of the value at index v.
validationOf(v) == CHOOSE k \in Events("validate") : trace[k].idx = v

\* C17: in a cluster at index i, the j-th Option name (in character order)
\* reached without an earlier error receives the whole token at index
\* i + j as its value, never a character of the cluster; the values are
\* validated and applied in that order, each by its own Option, and when
\* there is no token at i + j the result is "<name> requires a value".
C17_SeveralOptions ==
  Done =>
    \A i \in 0..(Len(args) - 1) :
      severalNames(i) =>
        LET ns == namesInOrder(At(args, i)) IN
        \A p \in 1..Len(ns) :
          (isOption(spec, ns[p]) /\ dispatchedOK(i, ns, p - 1)) =>
            LET j == optionsUpTo(ns, p) IN
            IF i + j >= Len(args)
            THEN /\ returned = <<requiresValue(ns[p])>>
                 /\ \A k \in Events("validate") : trace[k].name # ns[p] \/ trace[k].idx <= i
            ELSE /\ \E k \in Events("validate") : trace[k].idx = i + j
                 /\ LET k == validationOf(i + j)
                        either == validate(spec[ns[p]].value, At(args, i + j)) IN
                    /\ trace[k].name = ns[p]
                    /\ trace[k].arg = At(args, i + j)
                    /\ \A h \in Events("validate") :
                         (trace[h].idx > i /\ trace[h].idx < i + j) => h < k
                    /\ IF either.isLeft
                       THEN returned = <<either>> /\ k = Len(trace)
                       ELSE /\ trace[k + 1].op = "apply"
                            /\ trace[k + 1].idx = i + j
                            /\ trace[k + 1].name = ns[p]
                            /\ trace[k + 1].arg = either.value

\* A cluster whose second Option took the second token after the cluster.
C17_Witness ==
  /\ Done
  /\ \E i \in 0..(Len(args) - 1) :
       /\ severalNames(i)
       /\ optionsUpTo(namesInOrder(At(args, i)), Len(namesInOrder(At(args, i)))) = 2
       /\ dispatchedOK(i, namesInOrder(At(args, i)), Len(namesInOrder(At(args, i))))
       /\ \E k \in Events("apply") : trace[k].idx = i + 2 /\ trace[k - 1].arg = At(args, i + 2)
       /\ ~result.isLeft

\* ------------------------------------------------------------ C18
\* C18: idx stays within 0..Len(args) at every point of the scan; the loop
\* head is evaluated with idx <= Len(args), so the end-of-input test is
\* never stepped over; args[idx] is read (classified, expanded or taken
\* as an option value) only for idx < Len(args), also for the values the
\* Options of a cluster consume.
C18_IndexBound ==
  /\ idx \in 0..Len(args)
  /\ pc = "head" => idx <= Len(args)
  /\ pc = "names" => (idx < Len(args) /\ tokenIndex <= idx)
  /\ \A k \in 1..Len(trace) :
       /\ trace[k].idx \in 0..Len(args)
       /\ isRead(trace[k]) => trace[k].idx < Len(args)
       /\ trace[k].op = "end" <=> trace[k].idx = Len(args)
  /\ (Done /\ idx = Len(args)) =>
       \/ trace[Len(trace)].op = "end"
       \/ returned = <<requiresValue(trace[Len(trace)].name)>>

\* The second Option of a cluster found idx + 1 equal to the length: the
\* first one had taken the last argument.
C18_Witness ==
  /\ Done
  /\ idx = Len(args)
  /\ \E i \in 0..(Len(args) - 1) :
       /\ severalNames(i)
       /\ \E k \in Events("validate") : trace[k].idx = Len(args) - 1 /\ trace[k].idx > i
       /\ trace[Len(trace)].op = "lookup" /\ trace[Len(trace)].idx = i
  /\ returned = <<requiresValue(trace[Len(trace)].name)>>

\* ------------------------------------------------------------ C19
\* The value at index i was validated as an option value.
isValue(i) == \E k \in Events("validate") : trace[k].idx = i

\* In how many ways args[i] was consumed: as a token of names, as an
\* option value, as the separator.
waysConsumed(i) ==
  (IF Classified("names", i) THEN 1 ELSE 0)
  + (IF isValue(i) THEN 1 ELSE 0)
  + (IF Classified("separator", i) THEN 1 ELSE 0)

\* C19: when parseArgs succeeds the positionals are args[k..] for
\* k = Len(args) - (their number); every argument before k was consumed in
\* exactly one way, as a token of names, as an option value or as the
\* separator, which can only be at k - 1; no argument from k on was
\* consumed, so none is dropped, duplicated or reordered.
C19_PositionalSuffix ==
  (Done /\ ~result.isLeft) =>
    LET ps == result.value.snd
        k == Len(args) - Len(ps) IN
    /\ k \in 0..Len(args)
    /\ ps = slice(args, k)
    /\ \A i \in 0..(k - 1) :
         /\ waysConsumed(i) = 1
         /\ Classified("separator", i) => i = k - 1
         /\ ~Classified("positional", i)
    /\ \A i \in k..(Len(args) - 1) :
         /\ waysConsumed(i) = 0
         /\ Reached(i) => (i = k /\ Classified("positional", k))
    /\ \/ k = Len(args) /\ Classified("end", k)
       \/ k < Len(args) /\ Classified("positional", k)
       \/ k > 0 /\ Classified("separator", k - 1)

\* A long option, its value and one positional after them.
C19_Witness ==
  /\ Done
  /\ ~result.isLeft
  /\ Len(args) = 3
  /\ Classified("names", 0)
  /\ isValue(1)
  /\ Classified("positional", 2)
  /\ result.value.snd = <<At(args, 2)>>

\* ------------------------------------------------------------ C20
\* The characters arguments are made of here, and the arguments of at most
\* n of them.
Characters == {hyphen, "c", "e"}

Arguments(n) == UNION {[1..k -> Characters] : k \in 0..n}

\* The names looked up for the token at index i, in the order of the run.
RECURSIVE lookedUpIn(_, _)
lookedUpIn(es, i) ==
  IF es = <<>> THEN <<>>
  ELSE (IF Head(es).op = "lookup" /\ Head(es).idx = i THEN <<Head(es).name>> ELSE <<>>)
       \o lookedUpIn(Tail(es), i)

lookedUp(i) == lookedUpIn(trace, i)

\* arg starts with exactly one hyphen and is not "-".
oneHyphen(arg) == Len(arg) >= 2 /\ arg[1] = hyphen /\ arg[2] # hyphen

====
